---- MODULE Spec2Model ----
(***************************************************************************)
(* Verification model of three parts of the DMNTK repository:              *)
(*   - the decision model validator (model/src/validator.rs),              *)
(*   - the TCK evaluation handler   (server/src/tck/handlers.rs),          *)
(*   - the model evaluator entry point exercised by the compatibility      *)
(*     benchmark DMN_2_0102 (model-evaluator).                             *)
(* Each part has its own specification over the shared variables; the      *)
(* variables of the other parts stay at their initial values.              *)
(***************************************************************************)
EXTENDS Naturals, Sequences, FiniteSets, TLC

VARIABLES
  \* ---- validator.rs ----
  definitions,            \* the Definitions handed to validate (item_definitions only)
  item_definition_graph,  \* ModelValidator.item_definition_graph (petgraph DiGraph)
  item_definition_index,  \* ModelValidator.item_definition_index (HashMap name -> NodeIndex)
  vpc,                    \* position of the validate call
  vi,                     \* position of the loop over definitions.item_definitions
  vresult,                \* Result<Definitions> returned by validate
  vprevious,              \* outcome of the validate call before this one ("none", "ok", "err")
  \* ---- handlers.rs ----
  params,                 \* TckEvaluateParams of the request in progress
  tpc,                    \* position of post_tck_evaluate / do_evaluate_tck
  ti,                     \* position of the loop over input_values
  ctx,                    \* FeelContext built by process_input_node_dto_list
  converted,              \* indexes of the input values handed to Value::try_from, in order
  evaluate_calls,         \* arguments of the calls of workspace.evaluate for this request
  evaluated,              \* value returned by workspace.evaluate, while it is being output
  tresult,                \* Result<OutputNodeDto, DmntkError> of do_evaluate_tck
  response,               \* io::Result<Json<TckResultDto<OutputNodeDto>>>
  \* ---- model evaluator / benchmark ----
  bench_ctx,              \* input context of the benchmark
  bench_name,             \* invocable name of the benchmark
  bench_results,          \* values returned by the evaluations so far
  \* ---- generator.rs ----
  target_os,              \* the target_os the crate is built for
  run,                    \* number of the current call of lalr_c_tables
  gpc,                    \* position of lalr_c_tables
  target_dir,             \* whether TARGET_DIR exists
  grammar_file,           \* TARGET_DIR/feel.y
  script_file,            \* TARGET_DIR/gen.sh
  tables_file,            \* TARGET_DIR/feel.tab.c
  script_process,         \* the process of ./gen.sh started by the current call
  gresult                 \* the String returned by lalr_c_tables

vvars == <<definitions, item_definition_graph, item_definition_index, vpc, vi, vresult, vprevious>>
tvars == <<params, tpc, ti, ctx, converted, evaluate_calls, evaluated, tresult, response>>
bvars == <<bench_ctx, bench_name, bench_results>>
gvars == <<target_os, run, gpc, target_dir, grammar_file, script_file, tables_file, script_process, gresult>>
vars == <<vvars, tvars, bvars, gvars>>

None == "<none>"

(***************************************************************************)
(* Generic helpers.                                                        *)
(***************************************************************************)
MapInsert(m, k, v) == [x \in (DOMAIN m) \cup {k} |-> IF x = k THEN v ELSE m[x]]

EmptyMap == [x \in {} |-> None]

\* Option<T>: Nothing, or Some(x).
Nothing == <<>>

Some(x) == <<x>>

IsSome(o) == o # <<>>

Unwrap(o) == o[1]

(***************************************************************************)
(* Input models of the validator: lists of item definitions.               *)
(* An item definition is [name, type_ref, item_components]; names are      *)
(* unique within their scope (spec.md, section 3).                         *)
(***************************************************************************)
MaxItems == 3

TopNames == {"A", "B"}

ComponentNames == {"x", "y"}

TypeRefs == {None} \cup TopNames

RECURSIVE ItemDefinitionLists(_, _)
RECURSIVE ItemDefinitionTrees(_, _)

\* All lists of item definitions that hold exactly n item definitions in total
\* (nested components included), named from the set names, names unique in the list.
ItemDefinitionLists(n, names) ==
  IF n = 0 THEN {<<>>}
  ELSE UNION { LET heads == ItemDefinitionTrees(k, names)
                   rests == ItemDefinitionLists(n - k, names)
               IN { <<p[1]>> \o p[2] :
                      p \in { q \in heads \X rests :
                                \A j \in 1..Len(q[2]) : q[2][j].name # q[1].name } }
               : k \in 1..n }

ItemDefinitionTrees(k, names) ==
  { [name |-> nm, type_ref |-> tr, item_components |-> cs] :
      nm \in names, tr \in TypeRefs, cs \in ItemDefinitionLists(k - 1, ComponentNames) }

\* The models handed to validate.
Models == UNION { ItemDefinitionLists(n, TopNames) : n \in 0..MaxItems }

\* The models handed to a validate call that follows another one hold at most
\* MaxNextItems item definitions.
MaxNextItems == 2

NextModels == UNION { ItemDefinitionLists(n, TopNames) : n \in 0..MaxNextItems }

(***************************************************************************)
(* petgraph DiGraph<String, &str> as the validator uses it: nodes is the   *)
(* list of node weights, a NodeIndex is the 0-based position of the node,  *)
(* edges is the list of <<source, target, weight>>.                        *)
(***************************************************************************)
DiGraphNew == [nodes |-> <<>>, edges |-> <<>>]

\* DiGraph::add_node returns the index of the node it appends.
NodeCount(g) == Len(g.nodes)

AddNode(g, weight) == [g EXCEPT !.nodes = Append(g.nodes, weight)]

AddEdge(g, a, b, weight) == [g EXCEPT !.edges = Append(g.edges, <<a, b, weight>>)]

Successors(g, S) == { e[2] : e \in { g.edges[j] : j \in { j \in 1..Len(g.edges) : g.edges[j][1] \in S } } }

RECURSIVE ReachableFrom(_, _)
\* Nodes reachable from the set S in zero or more steps.
ReachableFrom(g, S) ==
  LET T == S \cup Successors(g, S)
  IN IF T = S THEN S ELSE ReachableFrom(g, T)

\* petgraph::algo::is_cyclic_directed: some node reaches itself in one or more steps
\* (a self loop is a cycle).
IsCyclicDirected(g) ==
  \E n \in 0..(NodeCount(g) - 1) : n \in ReachableFrom(g, Successors(g, {n}))

(***************************************************************************)
(* ModelValidator. A validator value is [graph, index].                    *)
(***************************************************************************)
\* Variant of ModelValidatorNew that hands out the validator of the call before.
ModelValidatorShared == [graph |-> item_definition_graph, index |-> item_definition_index]

ModelValidatorNew == [graph |-> DiGraphNew, index |-> EmptyMap]

\* The type reference part of check_recursive_item_definition (lines 97-105).
RegisterTypeRef(v, parent_node_index, item_definition) ==
  LET type_ref == item_definition.type_ref IN
  IF type_ref = None THEN v
  ELSE IF type_ref \in DOMAIN v.index
       THEN [v EXCEPT !.graph = AddEdge(v.graph, parent_node_index, v.index[type_ref], "type reference")]
       ELSE LET ref_node_index == NodeCount(v.graph) IN
            [graph |-> AddEdge(AddNode(v.graph, type_ref), parent_node_index, ref_node_index, "type reference"),
             index |-> MapInsert(v.index, type_ref, ref_node_index)]

RECURSIVE CheckRecursiveItemDefinition(_, _, _, _)
RECURSIVE RegisterComponents(_, _, _, _, _)

\* The loop over item_components of check_recursive_item_definition (lines 106-111),
\* from component k on.
RegisterComponents(v, parent_name, parent_node_index, item_components, k) ==
  IF k > Len(item_components) THEN v
  ELSE LET component_item_definition == item_components[k]
           component_name == parent_name \o "." \o component_item_definition.name
           component_node_index == NodeCount(v.graph)
           v1 == [v EXCEPT !.graph = AddEdge(AddNode(v.graph, component_name),
                                             parent_node_index, component_node_index,
                                             "component reference")]
           v2 == CheckRecursiveItemDefinition(v1, component_name, component_node_index,
                                              component_item_definition)
       IN RegisterComponents(v2, parent_name, parent_node_index, item_components, k + 1)

\* ModelValidator::check_recursive_item_definition.
CheckRecursiveItemDefinition(v, parent_name, parent_node_index, item_definition) ==
  RegisterComponents(RegisterTypeRef(v, parent_node_index, item_definition),
                     parent_name, parent_node_index, item_definition.item_components, 1)

\* Variant of RegisterItemDefinition that does not index the declared name before
\* its traversal.
RegisterItemDefinitionUnindexed(v, item_definition) ==
  LET name == item_definition.name
      node_index == NodeCount(v.graph)
      v1 == [v EXCEPT !.graph = AddNode(v.graph, name)]
      v2 == CheckRecursiveItemDefinition(v1, name, node_index, item_definition)
  IN [v2 EXCEPT !.index = MapInsert(v2.index, name, node_index)]

\* The body of the loop of check_recursive_item_definitions (lines 83-86).
RegisterItemDefinition(v, item_definition) ==
  LET name == item_definition.name
      node_index == NodeCount(v.graph)
      v1 == [graph |-> AddNode(v.graph, name),
             index |-> MapInsert(v.index, name, node_index)]
  IN CheckRecursiveItemDefinition(v1, name, node_index, item_definition)

ErrItemDefinitionsCycle == [ok |-> FALSE, err |-> "item definitions cycle"]

\* Variant of ValidateResult that returns the definitions without their item
\* definitions.
ValidateResultEmptied(cyclic, defs) ==
  IF cyclic THEN ErrItemDefinitionsCycle ELSE [ok |-> TRUE, value |-> <<>>]

\* The Result<Definitions> of ModelValidator::validate, given the outcome of the
\* cycle check (lines 75-76 with lines 88-92).
ValidateResult(cyclic, defs) ==
  IF cyclic THEN ErrItemDefinitionsCycle ELSE [ok |-> TRUE, value |-> defs]

NoResult == [ok |-> FALSE, err |-> None]

NoResponse == [io |-> None]

\* validate(definitions) is called: a new ModelValidator (lines 53-54, 66-71).
Validate ==
  /\ vpc = "idle"
  /\ \E m \in Models : definitions' = m
  /\ item_definition_graph' = ModelValidatorNew.graph
  /\ item_definition_index' = ModelValidatorNew.index
  /\ vi' = 1
  /\ vresult' = NoResult
  /\ vpc' = "loop"
  /\ UNCHANGED <<vprevious, tvars, bvars, gvars>>

\* validate(definitions) is called again, right after an earlier call returned: the
\* variables still hold the validator of that call; this call makes its own
\* (lines 53-54, 66-71).
ValidateNext ==
  /\ vpc = "done"
  /\ \E m \in NextModels : definitions' = m
  /\ item_definition_graph' = ModelValidatorNew.graph
  /\ item_definition_index' = ModelValidatorNew.index
  /\ vi' = 1
  /\ vprevious' = IF vresult.ok THEN "ok" ELSE "err"
  /\ vresult' = NoResult
  /\ vpc' = "loop"
  /\ UNCHANGED <<tvars, bvars, gvars>>

\* One iteration of the loop of check_recursive_item_definitions.
CheckItemDefinition ==
  /\ vpc = "loop"
  /\ vi <= Len(definitions)
  /\ LET v == RegisterItemDefinition([graph |-> item_definition_graph,
                                      index |-> item_definition_index], definitions[vi])
     IN /\ item_definition_graph' = v.graph
        /\ item_definition_index' = v.index
  /\ vi' = vi + 1
  /\ UNCHANGED <<definitions, vpc, vresult, vprevious, tvars, bvars, gvars>>

\* The cycle check after the loop, and the return of validate.
CheckCycles ==
  /\ vpc = "loop"
  /\ vi > Len(definitions)
  /\ vresult' = ValidateResult(IsCyclicDirected(item_definition_graph), definitions)
  /\ vpc' = "done"
  /\ UNCHANGED <<definitions, item_definition_graph, item_definition_index, vi, vprevious, tvars, bvars, gvars>>

\* The caller takes the result; the validator is dropped.
ValidateReturn ==
  /\ vpc = "done"
  /\ vpc' = "idle"
  /\ definitions' = <<>>
  /\ item_definition_graph' = DiGraphNew
  /\ item_definition_index' = EmptyMap
  /\ vi' = 1
  /\ vresult' = NoResult
  /\ vprevious' = "none"
  /\ UNCHANGED <<tvars, bvars, gvars>>

VInit ==
  /\ definitions = <<>>
  /\ item_definition_graph = DiGraphNew
  /\ item_definition_index = EmptyMap
  /\ vpc = "idle"
  /\ vi = 1
  /\ vresult = NoResult
  /\ vprevious = "none"

TInit ==
  /\ params = [invocable_path |-> Nothing, input_values |-> Nothing]
  /\ tpc = "idle"
  /\ ti = 1
  /\ ctx = EmptyMap
  /\ converted = <<>>
  /\ evaluate_calls = <<>>
  /\ evaluated = None
  /\ tresult = NoResult
  /\ response = NoResponse

BInit ==
  /\ bench_ctx = EmptyMap
  /\ bench_name = None
  /\ bench_results = <<>>

\* A file that does not exist.
NoFile == [exists |-> FALSE, content |-> None, open |-> FALSE, exec |-> FALSE]

\* Before the first call of lalr_c_tables: a clean target directory tree.
GClean ==
  /\ run = 1
  /\ gpc = "start"
  /\ target_dir = FALSE
  /\ grammar_file = NoFile
  /\ script_file = NoFile
  /\ tables_file = NoFile
  /\ script_process = "none"
  /\ gresult = Nothing

GInit == target_os = "linux" /\ GClean

Init == VInit /\ TInit /\ BInit /\ GInit

VNext == Validate \/ CheckItemDefinition \/ CheckCycles \/ ValidateReturn

SpecValidator == Init /\ [][VNext]_vars

\* Sequences of validate calls, one right after the other.
VSeqNext == VNext \/ ValidateNext

SpecValidatorSeq == Init /\ [][VSeqNext]_vars

(***************************************************************************)
(* TCK handler (server/src/tck/handlers.rs).                               *)
(* A request is TckEvaluateParams [invocable_path, input_values]; both     *)
(* fields are optional. An InputNodeDto is [name, value].                  *)
(***************************************************************************)
MaxInputs == 2

InvocablePaths == {"io/dmntk/2_0102/Decision1"}

InputNames == {"a", "b"}

\* The ValueDto values sent as input values.
InputValueDtos == {"dto:1", "dto:bad-type", "dto:bad-text"}

InputNodeDtos == { [name |-> n, value |-> d] : n \in InputNames, d \in InputValueDtos }

RECURSIVE SeqsOfLen(_, _)
SeqsOfLen(S, n) ==
  IF n = 0 THEN {<<>>} ELSE { Append(q, x) : q \in SeqsOfLen(S, n - 1), x \in S }

InputLists == UNION { SeqsOfLen(InputNodeDtos, n) : n \in 0..MaxInputs }

Requests ==
  { [invocable_path |-> ip, input_values |-> iv] :
      ip \in {Nothing} \cup { Some(x) : x \in InvocablePaths },
      iv \in {Nothing} \cup { Some(x) : x \in InputLists } }

\* A DmntkError; Display gives its text.
DmntkError(text) == [text |-> text]

Display(err) == err.text

\* err_missing_attribute(name)
ErrMissingAttribute(name) == DmntkError("missing attribute: " \o name)

\* Value::try_from(&ValueDto): the FEEL value of an input DTO, or a conversion error.
ValueTryFromDto(dto) ==
  CASE dto = "dto:1" -> [ok |-> TRUE, value |-> "value:1"]
    [] dto = "dto:bad-type" -> [ok |-> FALSE, err |-> DmntkError("invalid type")]
    [] dto = "dto:bad-text" -> [ok |-> FALSE, err |-> DmntkError("invalid text")]

\* ValueDto::try_from(&Value): the DTO of a result value, or a conversion error.
ValueDtoTryFrom(value) ==
  CASE value = "value:1" -> [ok |-> TRUE, value |-> "dto:1"]
    [] value = "value:foo bar" -> [ok |-> TRUE, value |-> "dto:foo bar"]
    [] value = "value:function" -> [ok |-> FALSE, err |-> DmntkError("no dto for value")]

\* What workspace.evaluate may return: a value or an evaluation error.
EvaluateOutcomes ==
  { [ok |-> TRUE, value |-> v] : v \in {"value:1", "value:foo bar", "value:function"} }
  \cup { [ok |-> FALSE, err |-> DmntkError("invocable not found")] }

\* TckResultDto::data(d) and TckResultDto::error(err).
TckResultDtoData(d) == [data |-> Some(d), errors |-> <<>>]

TckResultDtoError(err) == [data |-> Nothing, errors |-> << [detail |-> Display(err)] >>]

\* prepare_output_node_dto(value)
PrepareOutputNodeDto(value) ==
  LET r == ValueDtoTryFrom(value)
  IN IF r.ok THEN [value |-> Some(r.value)] ELSE [value |-> Nothing]

\* Variant of PostTckEvaluateResponse that propagates a failure as an io error.
PostTckEvaluateResponsePropagating(result) ==
  IF result.ok THEN [io |-> "Ok", body |-> TckResultDtoData(result.value)]
  ELSE [io |-> "Err", body |-> [data |-> Nothing, errors |-> <<>>]]

\* The match of post_tck_evaluate on the result of do_evaluate_tck (lines 132-135).
PostTckEvaluateResponse(result) ==
  IF result.ok THEN [io |-> "Ok", body |-> TckResultDtoData(result.value)]
  ELSE [io |-> "Ok", body |-> TckResultDtoError(result.err)]

\* post_tck_evaluate is called with a request; it calls do_evaluate_tck.
PostTckEvaluate ==
  /\ tpc = "idle"
  /\ \E r \in Requests : params' = r
  /\ tpc' = "do_evaluate_tck"
  /\ UNCHANGED <<ti, ctx, converted, evaluate_calls, evaluated, tresult, response, vvars, bvars, gvars>>

\* Variant of CheckAttributes that looks at 'input' before 'invocable'.
CheckAttributesInputFirst ==
  /\ tpc = "do_evaluate_tck"
  /\ IF IsSome(params.input_values)
     THEN IF IsSome(params.invocable_path)
          THEN /\ tpc' = "process_input"
               /\ ctx' = EmptyMap
               /\ ti' = 1
               /\ UNCHANGED tresult
          ELSE /\ tresult' = [ok |-> FALSE, err |-> ErrMissingAttribute("invocable")]
               /\ tpc' = "respond"
               /\ UNCHANGED <<ctx, ti>>
     ELSE /\ tresult' = [ok |-> FALSE, err |-> ErrMissingAttribute("input")]
          /\ tpc' = "respond"
          /\ UNCHANGED <<ctx, ti>>
  /\ UNCHANGED <<params, converted, evaluate_calls, evaluated, response, vvars, bvars, gvars>>

\* do_evaluate_tck: the two attribute checks (lines 142-143 and 149-154).
CheckAttributes ==
  /\ tpc = "do_evaluate_tck"
  /\ IF IsSome(params.invocable_path)
     THEN IF IsSome(params.input_values)
          THEN /\ tpc' = "process_input"
               /\ ctx' = EmptyMap
               /\ ti' = 1
               /\ UNCHANGED tresult
          ELSE /\ tresult' = [ok |-> FALSE, err |-> ErrMissingAttribute("input")]
               /\ tpc' = "respond"
               /\ UNCHANGED <<ctx, ti>>
     ELSE /\ tresult' = [ok |-> FALSE, err |-> ErrMissingAttribute("invocable")]
          /\ tpc' = "respond"
          /\ UNCHANGED <<ctx, ti>>
  /\ UNCHANGED <<params, converted, evaluate_calls, evaluated, response, vvars, bvars, gvars>>

\* Variant of ConvertInputValue that skips a value whose conversion fails and goes on.
ConvertInputValueSkipping ==
  /\ tpc = "process_input"
  /\ ti <= Len(Unwrap(params.input_values))
  /\ LET item == Unwrap(params.input_values)[ti]
         r == ValueTryFromDto(item.value)
     IN /\ converted' = Append(converted, ti)
        /\ ctx' = IF r.ok THEN MapInsert(ctx, item.name, r.value) ELSE ctx
        /\ ti' = ti + 1
  /\ UNCHANGED <<params, tpc, tresult, evaluate_calls, evaluated, response, vvars, bvars, gvars>>

\* process_input_node_dto_list: one iteration of the loop (lines 159-162); a failed
\* conversion returns from do_evaluate_tck with the error (the two ? operators).
ConvertInputValue ==
  /\ tpc = "process_input"
  /\ ti <= Len(Unwrap(params.input_values))
  /\ LET item == Unwrap(params.input_values)[ti]
         r == ValueTryFromDto(item.value)
     IN /\ converted' = Append(converted, ti)
        /\ IF r.ok
           THEN /\ ctx' = MapInsert(ctx, item.name, r.value)
                /\ ti' = ti + 1
                /\ UNCHANGED <<tpc, tresult>>
           ELSE /\ tresult' = [ok |-> FALSE, err |-> r.err]
                /\ tpc' = "respond"
                /\ UNCHANGED <<ctx, ti>>
  /\ UNCHANGED <<params, evaluate_calls, evaluated, response, vvars, bvars, gvars>>

\* The loop is over: workspace.evaluate is called with the context (line 147).
WorkspaceEvaluate ==
  /\ tpc = "process_input"
  /\ ti > Len(Unwrap(params.input_values))
  /\ evaluate_calls' = Append(evaluate_calls, [invocable_path |-> Unwrap(params.invocable_path),
                                               input_data |-> ctx])
  /\ \E r \in EvaluateOutcomes :
       IF r.ok
       THEN /\ evaluated' = r.value
            /\ tpc' = "prepare_output"
            /\ UNCHANGED tresult
       ELSE /\ tresult' = [ok |-> FALSE, err |-> r.err]
            /\ tpc' = "respond"
            /\ UNCHANGED evaluated
  /\ UNCHANGED <<params, ti, ctx, converted, response, vvars, bvars, gvars>>

\* Ok(prepare_output_node_dto(result)) (line 148).
PrepareOutput ==
  /\ tpc = "prepare_output"
  /\ tresult' = [ok |-> TRUE, value |-> PrepareOutputNodeDto(evaluated)]
  /\ tpc' = "respond"
  /\ UNCHANGED <<params, ti, ctx, converted, evaluate_calls, evaluated, response, vvars, bvars, gvars>>

\* post_tck_evaluate returns its response.
Respond ==
  /\ tpc = "respond"
  /\ response' = PostTckEvaluateResponse(tresult)
  /\ tpc' = "done"
  /\ UNCHANGED <<params, ti, ctx, converted, evaluate_calls, evaluated, tresult, vvars, bvars, gvars>>

\* The response is sent; the handler is ready for the next request.
RequestDone ==
  /\ tpc = "done"
  /\ params' = [invocable_path |-> Nothing, input_values |-> Nothing]
  /\ tpc' = "idle"
  /\ ti' = 1
  /\ ctx' = EmptyMap
  /\ converted' = <<>>
  /\ evaluate_calls' = <<>>
  /\ evaluated' = None
  /\ tresult' = NoResult
  /\ response' = NoResponse
  /\ UNCHANGED <<vvars, bvars, gvars>>

TNext ==
  \/ PostTckEvaluate
  \/ CheckAttributes
  \/ ConvertInputValue
  \/ WorkspaceEvaluate
  \/ PrepareOutput
  \/ Respond
  \/ RequestDone

SpecTck == Init /\ [][TNext]_vars

(***************************************************************************)
(* Model evaluator (spec.md, section 4.5) on the model DMN_2_0102, as the  *)
(* compatibility benchmark drives it: the expected value is asserted once  *)
(* and the evaluation is then repeated on the same evaluator and context.  *)
(***************************************************************************)
MaxIterations == 2

\* The decisions of DMN_2_0102: no information requirements, a literal expression.
\* (The expected texts of Decision2..Decision4 are written in ASCII and shortened.)
Dmn2_0102 ==
  [Decision1 |-> [requires |-> <<>>, body |-> [kind |-> "string literal", text |-> "foo bar"]],
   Decision2 |-> [requires |-> <<>>, body |-> [kind |-> "string literal", text |-> "someUnicodeString"]],
   Decision3 |-> [requires |-> <<>>, body |-> [kind |-> "string literal", text |-> "yokozuna"]],
   Decision4 |-> [requires |-> <<>>, body |-> [kind |-> "string literal", text |-> "thisIsSomeLongString"]]]

InvocableNames == {"Decision1", "Decision2", "Decision3", "Decision4", "Decision5"}

ContextNames == {"a", "Decision1"}

ContextValues == {"value:1", "value:x"}

\* The input contexts: every binding of some of the context names.
Contexts == UNION { [D -> ContextValues] : D \in SUBSET ContextNames }

\* Variant of FeelEvaluate that takes the text of a string literal for a name.
FeelEvaluateLiteralAsName(expression, context) ==
  IF expression.text \in DOMAIN context
  THEN [ok |-> TRUE, value |-> context[expression.text]]
  ELSE [ok |-> TRUE, value |-> "value:null"]

\* The external FEEL evaluator on a boxed expression and a context.
FeelEvaluate(expression, context) ==
  CASE expression.kind = "string literal" -> [ok |-> TRUE, value |-> "value:" \o expression.text]
    [] expression.kind = "name" ->
         IF expression.text \in DOMAIN context
         THEN [ok |-> TRUE, value |-> context[expression.text]]
         ELSE [ok |-> TRUE, value |-> "value:null"]

RECURSIVE EvaluateDependencies(_, _, _, _)
RECURSIVE EvaluateInvocable(_, _, _)

\* Dependencies k.. of the list requires are evaluated in order into the context;
\* the first failure aborts.
EvaluateDependencies(graph, requires, k, context) ==
  IF k > Len(requires) THEN [ok |-> TRUE, value |-> context]
  ELSE LET r == EvaluateInvocable(graph, requires[k], context)
       IN IF r.ok
          THEN EvaluateDependencies(graph, requires, k + 1, MapInsert(context, requires[k], r.value))
          ELSE r

\* evaluate_invocable(namespace, name, input_context) on the evaluation graph.
EvaluateInvocable(graph, name, input_context) ==
  IF name \notin DOMAIN graph THEN [ok |-> FALSE, err |-> DmntkError("no such invocable")]
  ELSE LET c == EvaluateDependencies(graph, graph[name].requires, 1, input_context)
       IN IF c.ok THEN FeelEvaluate(graph[name].body, c.value) ELSE c

\* The benchmark builds its context and names its invocable; assert_decision
\* evaluates it once.
BenchAssertDecision ==
  /\ bench_name = None
  /\ \E c \in Contexts, n \in InvocableNames :
       /\ bench_ctx' = c
       /\ bench_name' = n
       /\ bench_results' = <<EvaluateInvocable(Dmn2_0102, n, c)>>
  /\ UNCHANGED <<vvars, tvars, gvars>>

\* One iteration of b.iter: the same evaluation on the same evaluator and context.
BenchIter ==
  /\ bench_name # None
  /\ Len(bench_results) <= MaxIterations
  /\ bench_results' = Append(bench_results, EvaluateInvocable(Dmn2_0102, bench_name, bench_ctx))
  /\ UNCHANGED <<bench_ctx, bench_name, vvars, tvars, gvars>>

BNext == BenchAssertDecision \/ BenchIter

SpecBench == Init /\ [][BNext]_vars

(***************************************************************************)
(* Parsing tables generator (feel-grammar/src/generator.rs): lalr_c_tables *)
(* on the files of TARGET_DIR, which outlive a call. A file is             *)
(* [exists, content, open, exec]; open says that lalr_c_tables holds a     *)
(* handle of it. A failed expect panics; unwinding drops the open handles. *)
(***************************************************************************)
MaxRuns == 2

\* include_str!("feel.y") and include_str!("gen.sh").
FEEL_GRAMMAR == "<feel.y>"

GEN_SCRIPT == "<gen.sh>"

\* The text the script generates from a grammar file in the call number n.
Tables(grammar, n) == "tables of " \o grammar \o " generated in run " \o ToString(n)

\* File::create on a file: a new file is empty and not executable, an existing one
\* is truncated and keeps its mode.
FileCreate(f) == [exists |-> TRUE, content |-> "", open |-> TRUE, exec |-> f.exists /\ f.exec]

Closed(f) == [f EXCEPT !.open = FALSE]

\* set_file_permissions(file_name): mode 0o755 on linux, nothing elsewhere.
SetFilePermissions(f) == IF target_os = "linux" THEN [f EXCEPT !.exec = TRUE] ELSE f

\* A failed expect: the call panics, the open files are dropped.
Panic ==
  /\ gpc' = "panicked"
  /\ grammar_file' = Closed(grammar_file)
  /\ script_file' = Closed(script_file)

\* fs::create_dir_all(TARGET_DIR) (line 74).
CreateDirAll ==
  /\ gpc = "start"
  /\ \E ok \in BOOLEAN :
       IF ok THEN target_dir' = TRUE /\ gpc' = "create_grammar" /\ UNCHANGED <<grammar_file, script_file>>
       ELSE Panic /\ UNCHANGED target_dir
  /\ UNCHANGED <<target_os, run, tables_file, script_process, gresult, vvars, tvars, bvars>>

\* File::create(grammar_file_name) (line 77).
CreateGrammarFile ==
  /\ gpc = "create_grammar"
  /\ \E ok \in BOOLEAN :
       IF ok /\ target_dir
       THEN grammar_file' = FileCreate(grammar_file) /\ gpc' = "write_grammar" /\ UNCHANGED script_file
       ELSE Panic
  /\ UNCHANGED <<target_os, run, target_dir, tables_file, script_process, gresult, vvars, tvars, bvars>>

\* grammar_file.write_all(FEEL_GRAMMAR) (line 78); a failed write leaves a part.
WriteGrammarFile ==
  /\ gpc = "write_grammar"
  /\ \E ok \in BOOLEAN :
       IF ok
       THEN /\ grammar_file' = [grammar_file EXCEPT !.content = FEEL_GRAMMAR]
            /\ gpc' = "create_script"
            /\ UNCHANGED script_file
       ELSE /\ gpc' = "panicked"
            /\ grammar_file' = Closed([grammar_file EXCEPT !.content = "<part of feel.y>"])
            /\ UNCHANGED script_file
  /\ UNCHANGED <<target_os, run, target_dir, tables_file, script_process, gresult, vvars, tvars, bvars>>

\* File::create(&script_file_name) (line 81).
CreateScriptFile ==
  /\ gpc = "create_script"
  /\ \E ok \in BOOLEAN :
       IF ok /\ target_dir
       THEN script_file' = FileCreate(script_file) /\ gpc' = "write_script" /\ UNCHANGED grammar_file
       ELSE Panic
  /\ UNCHANGED <<target_os, run, target_dir, tables_file, script_process, gresult, vvars, tvars, bvars>>

\* script_file.write_all(GEN_SCRIPT) (line 82).
WriteScriptFile ==
  /\ gpc = "write_script"
  /\ \E ok \in BOOLEAN :
       IF ok
       THEN /\ script_file' = [script_file EXCEPT !.content = GEN_SCRIPT]
            /\ gpc' = "set_permissions"
            /\ UNCHANGED grammar_file
       ELSE /\ gpc' = "panicked"
            /\ script_file' = Closed([script_file EXCEPT !.content = "<part of gen.sh>"])
            /\ grammar_file' = Closed(grammar_file)
  /\ UNCHANGED <<target_os, run, target_dir, tables_file, script_process, gresult, vvars, tvars, bvars>>

\* set_file_permissions(&script_file_name) (line 83).
SetScriptPermissions ==
  /\ gpc = "set_permissions"
  /\ \E ok \in BOOLEAN :
       IF ok \/ target_os # "linux"
       THEN script_file' = SetFilePermissions(script_file) /\ gpc' = "close_files" /\ UNCHANGED grammar_file
       ELSE Panic
  /\ UNCHANGED <<target_os, run, target_dir, tables_file, script_process, gresult, vvars, tvars, bvars>>

\* The end of the first block (line 84): script_file and grammar_file are dropped.
CloseFiles ==
  /\ gpc = "close_files"
  /\ grammar_file' = Closed(grammar_file)
  /\ script_file' = Closed(script_file)
  /\ gpc' = "spawn"
  /\ UNCHANGED <<target_os, run, target_dir, tables_file, script_process, gresult, vvars, tvars, bvars>>

\* Command::new("./gen.sh").current_dir(TARGET_DIR).spawn() (lines 86-89): the
\* system starts a file only if it exists and is executable.
SpawnScript ==
  /\ gpc = "spawn"
  /\ \E ok \in BOOLEAN :
       IF ok /\ target_dir /\ script_file.exists /\ script_file.exec
       THEN script_process' = "running" /\ gpc' = "wait" /\ UNCHANGED <<grammar_file, script_file>>
       ELSE Panic /\ UNCHANGED script_process
  /\ UNCHANGED <<target_os, run, target_dir, tables_file, gresult, vvars, tvars, bvars>>

\* The script process ends: it has written the tables of the grammar file it
\* found, or it has failed and written nothing.
ScriptExits ==
  /\ script_process = "running"
  /\ \/ /\ script_process' = "succeeded"
        /\ tables_file' = [exists |-> TRUE, content |-> Tables(grammar_file.content, run),
                           open |-> FALSE, exec |-> FALSE]
     \/ /\ script_process' = "failed"
        /\ UNCHANGED tables_file
  /\ UNCHANGED <<target_os, run, gpc, target_dir, grammar_file, script_file, gresult, vvars, tvars, bvars>>

\* command_process.wait() returns (line 90): the process has ended; its exit status
\* is not looked at.
WaitScript ==
  /\ gpc = "wait"
  /\ script_process \in {"succeeded", "failed"}
  /\ gpc' = "read"
  /\ UNCHANGED <<target_os, run, target_dir, grammar_file, script_file, tables_file, script_process,
                 gresult, vvars, tvars, bvars>>

\* fs::read_to_string(TARGET_DIR/feel.tab.c) (line 92) and the return.
ReadTables ==
  /\ gpc = "read"
  /\ \E ok \in BOOLEAN :
       IF ok /\ tables_file.exists
       THEN gresult' = Some(tables_file.content) /\ gpc' = "returned" /\ UNCHANGED <<grammar_file, script_file>>
       ELSE Panic /\ UNCHANGED gresult
  /\ UNCHANGED <<target_os, run, target_dir, tables_file, script_process, vvars, tvars, bvars>>

\* lalr_c_tables is called again (the tests call it twice, one call after the
\* other); the files are as the call before left them.
NextRun ==
  /\ gpc \in {"returned", "panicked"}
  /\ run < MaxRuns
  /\ run' = run + 1
  /\ gpc' = "start"
  /\ script_process' = "none"
  /\ gresult' = Nothing
  /\ UNCHANGED <<target_os, target_dir, grammar_file, script_file, tables_file, vvars, tvars, bvars>>

GNext ==
  \/ CreateDirAll
  \/ CreateGrammarFile
  \/ WriteGrammarFile
  \/ CreateScriptFile
  \/ WriteScriptFile
  \/ SetScriptPermissions
  \/ CloseFiles
  \/ SpawnScript
  \/ ScriptExits
  \/ WaitScript
  \/ ReadTables
  \/ NextRun

\* The crate is built for linux or for another system.
InitGenerator == VInit /\ TInit /\ BInit /\ GClean /\ target_os \in {"linux", "other"}

SpecGenerator == InitGenerator /\ [][GNext]_vars

(***************************************************************************)
(* The item-definition reference graph of a model, with definitions        *)
(* identified by name (nested components by their dotted path).            *)
(***************************************************************************)
RECURSIVE ReferenceEdgesOf(_, _)
\* Type-reference and component edges of the item definition d known under path.
ReferenceEdgesOf(path, d) ==
  (IF d.type_ref = None THEN {} ELSE {<<path, d.type_ref>>})
  \cup { <<path, path \o "." \o d.item_components[k].name>> : k \in 1..Len(d.item_components) }
  \cup UNION { ReferenceEdgesOf(path \o "." \o d.item_components[k].name, d.item_components[k])
               : k \in 1..Len(d.item_components) }

ReferenceEdges(m) == UNION { ReferenceEdgesOf(m[k].name, m[k]) : k \in 1..Len(m) }

\* Type-reference edges between two distinct top-level definitions of m.
TopLevelTypeRefEdges(m) ==
  { <<m[p[1]].name, m[p[2]].name>> :
      p \in { q \in (1..Len(m)) \X (1..Len(m)) : q[1] # q[2] /\ m[q[1]].type_ref = m[q[2]].name } }

RECURSIVE EdgesReach(_, _)
EdgesReach(E, S) ==
  LET T == S \cup { e[2] : e \in { e \in E : e[1] \in S } }
  IN IF T = S THEN S ELSE EdgesReach(E, T)

HasCycle(E) == \E e \in E : e[1] \in EdgesReach(E, {e[2]})

RECURSIVE RefersTo(_, _)
\* The item definition d, or a component nested in it at any depth, has type_ref name.
RefersTo(d, name) ==
  \/ d.type_ref = name
  \/ \E k \in 1..Len(d.item_components) : RefersTo(d.item_components[k], name)

RECURSIVE Depth(_)
\* Nesting depth of the components of d (0: no components).
Depth(d) ==
  IF d.item_components = <<>> THEN 0
  ELSE 1 + CHOOSE x \in 0..MaxItems :
             /\ \E k \in 1..Len(d.item_components) : Depth(d.item_components[k]) = x
             /\ \A k \in 1..Len(d.item_components) : Depth(d.item_components[k]) <= x

\* C1: when validate has returned, it succeeded if and only if the reference graph
\* (type references and component edges, definitions identified by name) of the
\* model is acyclic.
C1_ValidateIffAcyclic ==
  vpc = "done" => (vresult.ok <=> ~HasCycle(ReferenceEdges(definitions)))

\* C2: when distinct top-level definitions reference each other in a closed chain
\* of type references, validate fails with the item-definitions-cycle error, in
\* every declaration order.
C2_MutualTypeRefCycleFails ==
  (vpc = "done" /\ HasCycle(TopLevelTypeRefEdges(definitions)))
    => vresult = ErrItemDefinitionsCycle

\* C3: validate returns either the definitions it was given, unchanged, or the
\* item-definitions-cycle error without definitions; nothing else.
C3_ValidateTwoOutcomes ==
  vpc = "done" =>
    \/ vresult = [ok |-> TRUE, value |-> definitions]
    \/ vresult = [ok |-> FALSE, err |-> "item definitions cycle"]

C3_Witness ==
  /\ vpc = "done"
  /\ vresult.ok
  /\ Len(definitions) = 2
  /\ \E k \in 1..2 : definitions[k].type_ref # None /\ definitions[k].item_components # <<>>

\* C8: after all definitions are traversed the graph holds one node per distinct
\* name: no two nodes carry the same name, so a forward-referenced name that is
\* declared later is one node.
C8_OneNodePerName ==
  vpc = "done" =>
    \A a, b \in 1..Len(item_definition_graph.nodes) :
      item_definition_graph.nodes[a] = item_definition_graph.nodes[b] => a = b

\* C9: a cycle confined to one top-level definition (its own type_ref, or the
\* type_ref of a component nested in it at any depth, names it) makes validate
\* fail with the item-definitions-cycle error, wherever it is declared.
C9_SelfCycleFails ==
  (vpc = "done" /\ \E k \in 1..Len(definitions) : RefersTo(definitions[k], definitions[k].name))
    => vresult = ErrItemDefinitionsCycle

C9_Witness ==
  /\ vpc = "done"
  /\ vresult = ErrItemDefinitionsCycle
  /\ \E k \in 1..Len(definitions) :
       /\ definitions[k].type_ref # definitions[k].name
       /\ Depth(definitions[k]) = 2
       /\ RefersTo(definitions[k], definitions[k].name)

RECURSIVE RegisterPrefix(_, _, _)
\* The validator after the first n item definitions of m, built from an empty graph
\* and an empty index.
RegisterPrefix(m, n, v) ==
  IF n = 0 THEN v ELSE RegisterItemDefinition(RegisterPrefix(m, n - 1, v), m[n])

ValidatorAlone(m, n) == RegisterPrefix(m, n, [graph |-> DiGraphNew, index |-> EmptyMap])

\* C11: in a sequence of validate calls, the graph and the index of a call hold
\* only what the call's own model put there (they start empty, whatever the call
\* before left), and the result is the result of validating the model alone.
C11_ValidateDependsOnModelOnly ==
  /\ vpc = "loop" =>
       /\ item_definition_graph = ValidatorAlone(definitions, vi - 1).graph
       /\ item_definition_index = ValidatorAlone(definitions, vi - 1).index
  /\ vpc = "done" =>
       /\ item_definition_graph = ValidatorAlone(definitions, Len(definitions)).graph
       /\ vresult = ValidateResult(IsCyclicDirected(ValidatorAlone(definitions, Len(definitions)).graph),
                                   definitions)

C11_Witness ==
  /\ vpc = "done"
  /\ vprevious = "err"
  /\ vresult.ok
  /\ Len(definitions) = 2

(***************************************************************************)
(* Claims about the TCK handler.                                           *)
(***************************************************************************)
\* Indexes of the input values whose conversion to a FEEL value fails.
FailingInputs(list) == { k \in 1..Len(list) : ~ValueTryFromDto(list[k].value).ok }

FirstFailing(list) == CHOOSE k \in FailingInputs(list) : \A j \in FailingInputs(list) : k <= j

\* The context that binds every input value of the list, a later value of a name
\* replacing an earlier one.
BoundContext(list) ==
  [n \in { list[k].name : k \in 1..Len(list) } |->
     LET last == CHOOSE k \in 1..Len(list) :
                   /\ list[k].name = n
                   /\ \A j \in 1..Len(list) : list[j].name = n => j <= k
     IN ValueTryFromDto(list[last].value).value]

Returned == tpc \in {"respond", "done"}

\* C4: without 'invocable' the result is the missing-attribute error naming
\* "invocable" (also when 'input' is absent too); with 'invocable' but without
\* 'input' it is the one naming "input"; in both cases no input value is converted
\* and workspace.evaluate is not called.
C4_MissingAttribute ==
  /\ (~IsSome(params.invocable_path) \/ ~IsSome(params.input_values))
       => (converted = <<>> /\ evaluate_calls = <<>>)
  /\ (Returned /\ ~IsSome(params.invocable_path))
       => tresult = [ok |-> FALSE, err |-> DmntkError("missing attribute: invocable")]
  /\ (Returned /\ IsSome(params.invocable_path) /\ ~IsSome(params.input_values))
       => tresult = [ok |-> FALSE, err |-> DmntkError("missing attribute: input")]

C4_Witness ==
  /\ tpc = "done"
  /\ ~IsSome(params.invocable_path)
  /\ ~IsSome(params.input_values)
  /\ ~tresult.ok

HasTypedValue(r) == IsSome(r.body.data) /\ IsSome(Unwrap(r.body.data).value)

HasErrors(r) == r.body.errors # <<>>

\* C5: every response carries either a typed value or error details, exactly one
\* of the two.
C5_ValueXorErrors ==
  tpc = "done" => (HasTypedValue(response) <=> ~HasErrors(response))

\* C6: every failure of do_evaluate_tck is returned as an Ok transport result whose
\* body holds exactly one error detail, the text of the error; no io error.
C6_FailureIsOkWithOneError ==
  tpc = "done" =>
    /\ response.io = "Ok"
    /\ ~tresult.ok =>
         /\ Len(response.body.errors) = 1
         /\ response.body.errors[1].detail = tresult.err.text
         /\ ~IsSome(response.body.data)

C6_Witness ==
  /\ tpc = "done"
  /\ ~tresult.ok
  /\ evaluate_calls # <<>>

\* C10: input values are converted in list order before evaluation; when one
\* fails, the error of the first failing value is returned, no later value is
\* converted and workspace.evaluate is not called; workspace.evaluate is called at
\* most once, after every input value is converted and bound in the context.
C10_ConvertInOrderThenEvaluate ==
  /\ \A j \in 1..Len(converted) : converted[j] = j
  /\ Len(evaluate_calls) <= 1
  /\ evaluate_calls # <<>> =>
       /\ IsSome(params.input_values)
       /\ Len(converted) = Len(Unwrap(params.input_values))
       /\ FailingInputs(Unwrap(params.input_values)) = {}
       /\ evaluate_calls[1].input_data = BoundContext(Unwrap(params.input_values))
  /\ (Returned /\ IsSome(params.invocable_path) /\ IsSome(params.input_values)
        /\ FailingInputs(Unwrap(params.input_values)) # {}) =>
       LET list == Unwrap(params.input_values)
           f == FirstFailing(list)
       IN /\ tresult = [ok |-> FALSE, err |-> ValueTryFromDto(list[f].value).err]
          /\ Len(converted) = f
          /\ evaluate_calls = <<>>

C10_Witness ==
  /\ tpc = "done"
  /\ IsSome(params.input_values)
  /\ Len(Unwrap(params.input_values)) = 2
  /\ FailingInputs(Unwrap(params.input_values)) = {1, 2}
  /\ Unwrap(params.input_values)[1].value # Unwrap(params.input_values)[2].value
  /\ converted = <<1>>

ScriptStarted == script_process # "none"

\* C12, first part: the script is started only when the target directory exists
\* and the grammar file and the script file are completely written and closed and
\* the script is executable.
C12_StartedAfterFilesReady ==
  ScriptStarted =>
    /\ target_dir
    /\ grammar_file = [exists |-> TRUE, content |-> FEEL_GRAMMAR, open |-> FALSE, exec |-> grammar_file.exec]
    /\ script_file = [exists |-> TRUE, content |-> GEN_SCRIPT, open |-> FALSE, exec |-> TRUE]

\* C12, second part: the tables file is read only after the script process ended.
C12_ReadAfterExit ==
  gpc \in {"read", "returned"} => script_process \in {"succeeded", "failed"}

\* C12, third part: the returned text is the tables file generated by this call's
\* script from the embedded grammar.
C12_ReturnsTablesOfThisRun ==
  gpc = "returned" => gresult = Some(Tables(FEEL_GRAMMAR, run))

\* C12: lalr_c_tables starts the script only after the directory exists and both
\* files are written, closed and the script executable; reads the tables file only
\* after the script ended; and returns the tables generated by this run from the
\* embedded grammar, not a file left by an earlier run.
C12_FixedOrderAndFreshTables ==
  /\ C12_StartedAfterFilesReady
  /\ C12_ReadAfterExit
  /\ C12_ReturnsTablesOfThisRun

====
